---- MODULE Spec2Model ----
(***************************************************************************)
(* Model of src/builtins/impls/http.rs: the http.send builtin.            *)
(*                                                                         *)
(* One call of send is a small state machine: the synchronous prefix       *)
(* (unimplemented_option, build_client, build_request), the dispatch       *)
(* through the middleware stack (retry outside, cache inside, network),    *)
(* and the body read followed by decode_body.                              *)
(***************************************************************************)
EXTENDS Integers, Sequences, FiniteSets, TLC

VARIABLES
    pc,             \* position of the call: "idle", "dispatch", "body", "done"
    data,           \* the Request of the call in progress
    client,         \* the ClientWithMiddleware built for this call
    request,        \* the RequestBuilder assembled for this call
    latency,        \* nanoseconds the endpoint takes to answer this call
    n_past_retries, \* the retry middleware's counter
    dispatches,     \* network round trips started by this call
    resp,           \* the reqwest Response held between the two awaits
    result,         \* what send returned: Ok(Response) or Err(error)
    stages,         \* the stages of send that have run, in order
    last,           \* the previous call of this process, once it returned
    calls           \* calls of send started by this process

vars == <<pc, data, client, request, latency, n_past_retries, dispatches,
          resp, result, stages, last, calls>>

-----------------------------------------------------------------------------
(* Option<T>, Result<T, E> *)

None == <<>>
Some(v) == <<v>>
IsSome(o) == Len(o) = 1
Unwrap(o) == o[1]
Option(S) == {None} \cup {Some(v) : v \in S}

Ok(v) == [ok |-> TRUE, v |-> v]
Err(e) == [ok |-> FALSE, err |-> e]

-----------------------------------------------------------------------------
(* Bounds of the model *)

\* max_retry_atempts ranges over 0 .. MaxRetry
MaxRetry == 2
\* calls of send one after the other in the sequential specification
MaxCalls == 2

-----------------------------------------------------------------------------
(* serde_json::Value, restricted to the shapes the model sends and receives *)

JNum(n) == [kind |-> "Number", n |-> n]
JStr(s) == [kind |-> "String", s |-> s]
JObj(k, v) == [kind |-> "Object", key |-> k, value |-> v]

Quote(s) == "\"" \o s \o "\""

\* serde_json's serialization of a Value (what RequestBuilder::json sends)
RECURSIVE to_json(_)
to_json(v) ==
    CASE v.kind = "Number" -> ToString(v.n)
      [] v.kind = "String" -> Quote(v.s)
      [] v.kind = "Object" -> "{" \o Quote(v.key) \o ":" \o to_json(v.value) \o "}"

-----------------------------------------------------------------------------
(* Timeout: the untagged enum and its deserialization *)

TimeString(d) == [variant |-> "TimeString", value |-> d]
Nanosec(n) == [variant |-> "Nanosec", value |-> n]

Digits == <<"0", "1", "2", "3", "4", "5", "6", "7", "8", "9">>
IsDigit(c) == \E i \in 1..10 : Digits[i] = c
DigitVal(c) == (CHOOSE i \in 1..10 : Digits[i] = c) - 1

\* number of leading digits of a character sequence
RECURSIVE DigitPrefix(_)
DigitPrefix(cs) ==
    IF cs = <<>> \/ ~IsDigit(Head(cs)) THEN 0 ELSE 1 + DigitPrefix(Tail(cs))

RECURSIVE DecimalValue(_, _)
DecimalValue(cs, acc) ==
    IF cs = <<>> THEN acc ELSE DecimalValue(Tail(cs), 10 * acc + DigitVal(Head(cs)))

\* nanoseconds in one unit of a duration string; no unit means seconds
UnitNanos(u) ==
    CASE u = <<>> -> Some(1000000000)
      [] u = <<"s">> -> Some(1000000000)
      [] u = <<"m", "s">> -> Some(1000000)
      [] u = <<"u", "s">> -> Some(1000)
      [] u = <<"n", "s">> -> Some(1)
      [] OTHER -> None

\* duration_str::deserialize_duration on a JSON value: a string "<digits><unit>"
deserialize_duration(j) ==
    IF j.kind # "String" THEN Err("invalid type")
    ELSE LET n == DigitPrefix(j.chars)
             unit == UnitNanos(SubSeq(j.chars, n + 1, Len(j.chars)))
         IN IF n = 0 \/ ~IsSome(unit) THEN Err("invalid duration")
            ELSE Ok(DecimalValue(SubSeq(j.chars, 1, n), 0) * Unwrap(unit))

\* #[serde(untagged)]: the first variant that deserializes wins
DeserializeTimeout(j) ==
    IF deserialize_duration(j).ok THEN Ok(TimeString(deserialize_duration(j).v))
    ELSE IF j.kind = "Number" /\ j.n >= 0 THEN Ok(Nanosec(j.n))
    ELSE Err("data did not match any variant of untagged enum Timeout")

\* Duration::from_nanos; a Duration is held as its nanoseconds
from_nanos(n) == n

DurStr(cs) == [kind |-> "String", chars |-> cs]


-----------------------------------------------------------------------------
(* Request *)

\* the twelve options unimplemented_option rejects, in the order it checks them
UnsupportedFields ==
    <<"raise_error", "tls_ca_cert", "tls_client_key", "tls_server_name",
      "tls_use_system_cert", "tls_ca_cert_file", "tls_client_key_file",
      "tls_ca_cert_env_variable", "tls_client_key_env_variable",
      "tls_insecure_skip_verify", "caching_mode", "force_cache_duration_seconds">>

\* every combination of the twelve unsupported options, absent or present
UnsupportedPart ==
    [raise_error : Option(BOOLEAN),
     tls_ca_cert : Option({"pem"}),
     tls_client_key : Option({"key"}),
     tls_server_name : Option({"host"}),
     tls_use_system_cert : Option(BOOLEAN),
     tls_ca_cert_file : Option({"ca.pem"}),
     tls_client_key_file : Option({"key.pem"}),
     tls_ca_cert_env_variable : Option({"CA"}),
     tls_client_key_env_variable : Option({"KEY"}),
     tls_insecure_skip_verify : Option(BOOLEAN),
     caching_mode : Option({"serialized"}),
     force_cache_duration_seconds : Option(BOOLEAN)]

NoUnsupported ==
    [raise_error |-> None, tls_ca_cert |-> None, tls_client_key |-> None,
     tls_server_name |-> None, tls_use_system_cert |-> None,
     tls_ca_cert_file |-> None, tls_client_key_file |-> None,
     tls_ca_cert_env_variable |-> None, tls_client_key_env_variable |-> None,
     tls_insecure_skip_verify |-> None, caching_mode |-> None,
     force_cache_duration_seconds |-> None]

\* the other twelve fields of Request, all options absent
PlainGet ==
    [url |-> "http://a/", method |-> "GET", body |-> None, raw_body |-> None,
     headers |-> None, enable_redirect |-> None, force_json_decode |-> None,
     force_yaml_decode |-> None, timeout |-> None, cache |-> None,
     force_cache |-> None, max_retry_atempts |-> None]

\* a Request: the supported part s and the unsupported part u
Request(s, u) == s @@ u

PresentUnsupported(d) ==
    {i \in 1..Len(UnsupportedFields) : IsSome(d[UnsupportedFields[i]])}

-----------------------------------------------------------------------------
(* unimplemented_option *)

bail(msg) == Err(msg)

\* variants of unimplemented_option, each one slip away from it:
\* the caching_mode check left out
unimplemented_option_without_caching_mode(d) ==
    IF PresentUnsupported(d) \ {11} # {} THEN bail("option unimplemented!") ELSE Ok(<<>>)

\* tls_insecure_skip_verify refused only when it is true
unimplemented_option_by_value(d) ==
    IF \/ PresentUnsupported(d) \ {10} # {}
       \/ d.tls_insecure_skip_verify = Some(TRUE)
    THEN bail("option unimplemented!") ELSE Ok(<<>>)

\* the raise_error check left out
unimplemented_option_without_raise_error(d) ==
    IF PresentUnsupported(d) \ {1} # {} THEN bail("option unimplemented!") ELSE Ok(<<>>)

\* the message names the first option found
unimplemented_option_naming_field(d) ==
    IF PresentUnsupported(d) # {}
    THEN bail("option unimplemented: " \o
              UnsupportedFields[CHOOSE i \in PresentUnsupported(d) :
                                   \A j \in PresentUnsupported(d) : i <= j])
    ELSE Ok(<<>>)

unimplemented_option(d) ==
    IF IsSome(d.raise_error) THEN bail("option unimplemented!")
    ELSE IF IsSome(d.tls_ca_cert) THEN bail("option unimplemented!")
    ELSE IF IsSome(d.tls_client_key) THEN bail("option unimplemented!")
    ELSE IF IsSome(d.tls_server_name) THEN bail("option unimplemented!")
    ELSE IF IsSome(d.tls_use_system_cert) THEN bail("option unimplemented!")
    ELSE IF IsSome(d.tls_ca_cert_file) THEN bail("option unimplemented!")
    ELSE IF IsSome(d.tls_client_key_file) THEN bail("option unimplemented!")
    ELSE IF IsSome(d.tls_ca_cert_env_variable) THEN bail("option unimplemented!")
    ELSE IF IsSome(d.tls_client_key_env_variable) THEN bail("option unimplemented!")
    ELSE IF IsSome(d.tls_insecure_skip_verify) THEN bail("option unimplemented!")
    ELSE IF IsSome(d.caching_mode) THEN bail("option unimplemented!")
    ELSE IF IsSome(d.force_cache_duration_seconds) THEN bail("option unimplemented!")
    ELSE Ok(<<>>)

-----------------------------------------------------------------------------
(* Response bodies and their decoding *)

\* BodyType::Json(value), BodyType::Yaml(value)
BodyJson(v) == [flavor |-> "Json", value |-> v]
BodyYaml(v) == [flavor |-> "Yaml", value |-> v]

TextPlainDoc == "{\"a\": 1}"
TextYamlDoc == "key: value\n"
TextTaggedJson == "{\"Json\": 7}"
TextTaggedYaml == "{\"Yaml\": 7}"
TextMalformed == "[1"

\* serde_json::from_str::<BodyType>: the target type is inferred from the
\* Option<BodyType> the branch builds, so the text is read as the externally
\* tagged enum: an object with the single key "Json" or "Yaml".
serde_json_from_str(text) ==
    CASE text = TextTaggedJson -> Ok(BodyJson(JNum(7)))
      [] text = TextTaggedYaml -> Ok(BodyYaml(JNum(7)))
      [] text = TextPlainDoc -> Err("serde_json::Error: unknown variant a")
      [] text = TextYamlDoc -> Err("serde_json::Error: expected value")
      [] OTHER -> Err("serde_json::Error: EOF while parsing")

\* serde_yaml::from_str::<BodyType>, likewise read as the enum. Whether a
\* single-key mapping names a variant depends on the serde_yaml release the
\* build links, so both outcomes are possible for the tagged texts.
serde_yaml_from_str(text) ==
    CASE text = TextTaggedJson ->
            {Ok(BodyJson(JNum(7))), Err("serde_yaml::Error: invalid type: map")}
      [] text = TextTaggedYaml ->
            {Ok(BodyYaml(JNum(7))), Err("serde_yaml::Error: invalid type: map")}
      [] text = TextPlainDoc ->
            {Err("serde_yaml::Error: unknown variant a"),
             Err("serde_yaml::Error: invalid type: map")}
      [] text = TextYamlDoc ->
            {Err("serde_yaml::Error: unknown variant key"),
             Err("serde_yaml::Error: invalid type: map")}
      [] OTHER -> {Err("serde_yaml::Error: did not find expected node")}

\* a HeaderValue: its bytes, and whether they are all visible ASCII
HeaderValue(t) == [text |-> t, visible |-> TRUE]
OpaqueHeaderValue == [text |-> "text/plain; name=\\xe9", visible |-> FALSE]

\* a variant of SomeOrErr that drops a parse error: `.ok()` in place of `?`
SomeOrNone(r) == IF r.ok THEN Ok(Some(r.v)) ELSE Ok(None)

\* Some(from_str(raw_body)?): the parsed value, or the parse error returned
SomeOrErr(r) == IF r.ok THEN Ok(Some(r.v)) ELSE r

\* Result<Option<BodyType>>: the outcomes decode_body can return
decode_body(d, headers, raw_body) ==
    IF raw_body = "" THEN {Ok(None)}
    ELSE IF "content-type" \in DOMAIN headers THEN
        LET header == headers["content-type"] IN
        IF ~header.visible THEN {Err("ToStrError")}
        ELSE CASE header.text = "application/json" ->
                    {SomeOrErr(serde_json_from_str(raw_body))}
               [] header.text \in {"application/yaml", "application/x-yaml"} ->
                    {SomeOrErr(r) : r \in serde_yaml_from_str(raw_body)}
               [] OTHER -> {Ok(None)}
    ELSE IF d.force_json_decode = Some(TRUE) THEN
        {SomeOrErr(serde_json_from_str(raw_body))}
    ELSE IF d.force_yaml_decode = Some(TRUE) THEN
        {SomeOrErr(r) : r \in serde_yaml_from_str(raw_body)}
    ELSE {Ok(None)}

-----------------------------------------------------------------------------
(* build_client *)

\* MokaManager::default(): a new store, holding nothing
MokaManager_default == <<>>

\* Result<ClientWithMiddleware>. builder_fails is Client::builder().build()
\* failing on the host (no TLS backend, no resolver).
build_client(d, builder_fails) ==
    IF builder_fails THEN Err("reqwest::Error(builder)")
    ELSE Ok([redirect |-> IF d.enable_redirect = Some(FALSE) THEN "none" ELSE "default",
             max_n_retries |-> d.max_retry_atempts,
             cache |-> IF d.cache = Some(TRUE)
                        THEN Some([mode |-> IF d.force_cache = Some(TRUE)
                                             THEN "ForceCache" ELSE "Default",
                                   manager |-> MokaManager_default])
                        ELSE None])

-----------------------------------------------------------------------------
(* build_request *)

InvalidHeaderNames == {"bad name"}
InvalidHeaderValues == {"a\nb"}

\* HeaderName stores names in lower case
LowerName(n) == IF n = "Content-Type" THEN "content-type" ELSE n

\* HeaderMap::try_from(&HashMap<String, String>)
try_into(h) ==
    IF \E n \in DOMAIN h : n \in InvalidHeaderNames THEN Err("InvalidHeaderName")
    ELSE IF \E n \in DOMAIN h : h[n] \in InvalidHeaderValues THEN Err("InvalidHeaderValue")
    ELSE Ok([m \in {LowerName(n) : n \in DOMAIN h} |->
                h[CHOOSE n \in DOMAIN h : LowerName(n) = m]])

\* RequestBuilder::json: the serialized value becomes the body, and
\* Content-Type: application/json is added unless a Content-Type is already set
json(rb, v) ==
    [rb EXCEPT !.body = Some(to_json(v)),
               !.headers = IF "content-type" \in DOMAIN rb.headers
                           THEN rb.headers
                           ELSE ("content-type" :> "application/json") @@ rb.headers]

\* a variant of apply_timeout whose Nanosec arm sets nothing
apply_timeout_string_only(rb, t) ==
    CASE t.variant = "TimeString" -> [rb EXCEPT !.timeout = Some(t.value)]
      [] t.variant = "Nanosec" -> rb

\* the match on the Timeout: RequestBuilder::timeout with the Duration of
\* either variant
apply_timeout(rb, t) ==
    CASE t.variant = "TimeString" -> [rb EXCEPT !.timeout = Some(t.value)]
      [] t.variant = "Nanosec" -> [rb EXCEPT !.timeout = Some(from_nanos(t.value))]

\* a variant of body that keeps a body already set
body_unless_set(rb, text) == IF IsSome(rb.body) THEN rb ELSE [rb EXCEPT !.body = Some(text)]

\* RequestBuilder::body: replaces the body, touches no header
body(rb, text) == [rb EXCEPT !.body = Some(text)]

\* Result<RequestBuilder>; the client it was made from stays in `client`
build_request(d) ==
    LET rb0 == [method |-> d.method, url |-> d.url, timeout |-> None,
                headers |-> <<>>, body |-> None]
        rb1 == IF IsSome(d.timeout) THEN apply_timeout(rb0, Unwrap(d.timeout)) ELSE rb0
        hm == IF IsSome(d.headers) THEN try_into(Unwrap(d.headers)) ELSE Ok(<<>>)
    IN IF ~hm.ok THEN hm
       ELSE LET rb2 == [rb1 EXCEPT !.headers = hm.v]
                rb3 == IF IsSome(d.body) THEN json(rb2, Unwrap(d.body)) ELSE rb2
                rb4 == IF IsSome(d.raw_body) THEN body(rb3, Unwrap(d.raw_body)) ELSE rb3
            IN Ok(rb4)

-----------------------------------------------------------------------------
(* The middleware stack: RetryTransientMiddleware outside, Cache inside *)

\* StatusCode::canonical_reason
canonical_reason(code) ==
    CASE code = 200 -> Some("OK")
      [] code = 404 -> Some("Not Found")
      [] code = 501 -> Some("Not Implemented")
      [] code = 503 -> Some("Service Unavailable")
      [] OTHER -> None

\* the status line send builds: the code, then the reason when there is one
StatusLine(code) ==
    IF IsSome(canonical_reason(code))
    THEN ToString(code) \o " " \o Unwrap(canonical_reason(code))
    ELSE ToString(code)

\* reqwest_retry's default classification of one attempt's outcome
Retryable(o) ==
    IF o.ok
    THEN LET s == o.v.status IN
         IF s >= 500 /\ s <= 599 THEN "Transient"
         ELSE IF s >= 400 /\ s <= 499 /\ s # 408 /\ s # 429 THEN "Fatal"
         ELSE IF s >= 200 /\ s <= 299 THEN "None"
         ELSE IF s = 408 \/ s = 429 THEN "Transient"
         ELSE "Fatal"
    ELSE IF o.err \in {"reqwest::Error(connect)", "reqwest::Error(timeout)"}
         THEN "Transient" ELSE "Fatal"

\* a variant of should_retry that allows one retry more
should_retry_inclusive(max_n_retries, past) == past <= max_n_retries

\* ExponentialBackoff built with build_with_max_retries(n): retry while fewer
\* than n retries have been made
should_retry(max_n_retries, past) == past < max_n_retries

\* the cache key of http-cache
CacheKey(rb) == rb.method \o ":" \o rb.url

\* statuses http-cache-semantics stores
StorableStatuses == {200, 203, 204, 300, 301, 404, 405, 410, 414, 501}

is_storable(rb, r) ==
    /\ rb.method \in {"GET", "HEAD"}
    /\ r.status \in StorableStatuses
    /\ "cache-control" \in DOMAIN r.headers

\* what the network answers one dispatch with
NetworkOutcomes(Resps, NetErrs) ==
    IF IsSome(request.timeout) /\ latency > Unwrap(request.timeout)
    THEN {Err("reqwest::Error(timeout)")}
    ELSE {Err(e) : e \in NetErrs} \cup {Ok(r) : r \in Resps}

\* one pass through the cache layer and the network:
\* [res: the outcome, network: whether a dispatch was made, manager: the store after]
StackOutcomes(Resps, NetErrs) ==
    LET layer == client.cache
        key == CacheKey(request)
        hit == IsSome(layer) /\ key \in DOMAIN Unwrap(layer).manager
        \* Default mode serves a hit only while it is fresh
        serve == IF ~hit THEN {FALSE}
                 ELSE IF Unwrap(layer).mode = "ForceCache" THEN {TRUE}
                 ELSE BOOLEAN
        before == IF IsSome(layer) THEN Unwrap(layer).manager ELSE <<>>
        fetched == {[res |-> o, network |-> TRUE,
                     manager |-> IF IsSome(layer) /\ o.ok /\ is_storable(request, o.v)
                                 THEN (key :> o.v) @@ before ELSE before] :
                        o \in NetworkOutcomes(Resps, NetErrs)}
    IN UNION {IF s THEN {[res |-> Ok(before[key]), network |-> FALSE, manager |-> before]}
              ELSE fetched : s \in serve}

-----------------------------------------------------------------------------
(* send *)

StageOrder ==
    <<"validate", "build_client", "build_request", "dispatch",
      "status_headers", "read_body", "decode">>

Init ==
    /\ pc = "idle"
    /\ data = None
    /\ client = None
    /\ request = None
    /\ latency = 0
    /\ n_past_retries = 0
    /\ dispatches = 0
    /\ resp = None
    /\ result = None
    /\ stages = <<>>
    /\ last = None
    /\ calls = 0

\* send is called with d: the synchronous prefix, up to the first await.
\* lat is the time the endpoint will take, builder_fails the host's answer to
\* Client::builder().build().
SendBegin(Reqs, Lats, BuilderFails, limit) ==
    /\ pc = "idle"
    /\ calls < limit
    /\ \E d \in Reqs, lat \in Lats, builder_fails \in BuilderFails :
        LET v == unimplemented_option(d)
            c == build_client(d, builder_fails)
            r == build_request(d)
            failed == IF ~v.ok THEN Some(v)
                      ELSE IF ~c.ok THEN Some(c)
                      ELSE IF ~r.ok THEN Some(r)
                      ELSE None
        IN /\ data' = d
           /\ calls' = calls + 1
           /\ n_past_retries' = 0
           /\ dispatches' = 0
           /\ resp' = None
           /\ stages' = IF ~v.ok THEN <<"validate">>
                        ELSE IF ~c.ok THEN <<"validate", "build_client">>
                        ELSE <<"validate", "build_client", "build_request">>
           /\ client' = IF v.ok /\ c.ok THEN c.v ELSE None
           /\ request' = IF ~IsSome(failed) THEN r.v ELSE None
           /\ latency' = IF ~IsSome(failed) THEN lat ELSE 0
           /\ result' = IF IsSome(failed) THEN Unwrap(failed) ELSE None
           /\ pc' = IF IsSome(failed) THEN "done" ELSE "dispatch"
    /\ UNCHANGED last

\* request.send().await: one attempt of the retry middleware, through the
\* cache layer to the network; when a response is accepted, send computes the
\* status line, the status code and the headers before it awaits the body.
Attempt(Resps, NetErrs) ==
    /\ pc = "dispatch"
    /\ \E o \in StackOutcomes(Resps, NetErrs) :
        LET again == /\ IsSome(client.max_n_retries)
                     /\ Retryable(o.res) = "Transient"
                     /\ should_retry(Unwrap(client.max_n_retries), n_past_retries)
        IN /\ dispatches' = dispatches + (IF o.network THEN 1 ELSE 0)
           /\ client' = IF IsSome(client.cache)
                        THEN [client EXCEPT !.cache =
                                Some([Unwrap(client.cache) EXCEPT !.manager = o.manager])]
                        ELSE client
           /\ n_past_retries' = IF again THEN n_past_retries + 1 ELSE n_past_retries
           /\ stages' = (IF n_past_retries = 0 THEN Append(stages, "dispatch") ELSE stages)
                        \o (IF ~again /\ o.res.ok THEN <<"status_headers">> ELSE <<>>)
           /\ pc' = IF again THEN "dispatch" ELSE IF o.res.ok THEN "body" ELSE "done"
           /\ result' = IF ~again /\ ~o.res.ok THEN o.res ELSE result
           /\ resp' = IF ~again /\ o.res.ok
                      THEN [wire |-> o.res.v,
                            status |-> StatusLine(o.res.v.status),
                            status_code |-> IF data.raise_error = Some(FALSE)
                                            THEN 0 ELSE o.res.v.status,
                            headers |-> o.res.v.headers]
                      ELSE resp
    /\ UNCHANGED <<data, request, latency, last, calls>>

\* resp.text().await, then decode_body and the Response. read_fails is the
\* connection dropping while the body streams; a body that came through the
\* cache layer is already in memory.
ReadBody(ReadFails) ==
    /\ pc = "body"
    /\ \E read_fails \in ReadFails :
        IF read_fails /\ ~IsSome(client.cache)
        THEN /\ stages' = Append(stages, "read_body")
             /\ result' = Err("reqwest::Error(body)")
        ELSE \E dec \in decode_body(data, resp.headers, resp.wire.body) :
             /\ stages' = stages \o <<"read_body", "decode">>
             /\ result' = IF dec.ok
                          THEN Ok([status |-> resp.status,
                                   status_code |-> resp.status_code,
                                   body |-> dec.v,
                                   raw_body |-> resp.wire.body,
                                   headers |-> resp.headers,
                                   error |-> <<>>])
                          ELSE dec
    /\ pc' = "done"
    /\ UNCHANGED <<data, client, request, latency, n_past_retries, dispatches,
                   resp, last, calls>>

\* send has returned; the process goes on to its next call. Nothing of the
\* call survives but what the caller saw.
Return ==
    /\ pc = "done"
    /\ last' = Some([data |-> data, result |-> result, latency |-> latency,
                     dispatches |-> dispatches])
    /\ pc' = "idle"
    /\ data' = None
    /\ client' = None
    /\ request' = None
    /\ latency' = 0
    /\ n_past_retries' = 0
    /\ dispatches' = 0
    /\ resp' = None
    /\ result' = None
    /\ stages' = <<>>
    /\ UNCHANGED calls

-----------------------------------------------------------------------------
(* The inputs the specifications draw from *)

\* a response on the wire
Wire(status, content_type, cache_control, text) ==
    [status |-> status,
     headers |-> (IF IsSome(content_type)
                  THEN ("content-type" :> Unwrap(content_type)) ELSE <<>>)
                 @@ (IF cache_control
                     THEN ("cache-control" :> HeaderValue("max-age=60")) ELSE <<>>),
     body |-> text]

\* the timeout field as the host hands it over, and as serde reads it
TimeoutInputs ==
    {DurStr(<<"1", "0", "m", "s">>), JNum(10000000), DurStr(<<"5", "m", "s">>),
     DurStr(<<"1", "0", "x">>)}

Timeouts == {DeserializeTimeout(j).v : j \in {i \in TimeoutInputs : DeserializeTimeout(i).ok}}

HeaderMaps ==
    {("x-a" :> "1"), ("Content-Type" :> "text/plain"), ("bad name" :> "1"),
     ("x-a" :> "a\nb")}

Bodies == {JStr("a"), JObj("a", JNum(1))}

RetryCounts == 0..MaxRetry

\* requests that differ in the fields the assembler and the factory read
SupportedBroad ==
    {[PlainGet EXCEPT !.method = m, !.body = b, !.raw_body = rb, !.headers = h,
                      !.cache = c, !.max_retry_atempts = n, !.timeout = t] :
        m \in {"GET", "POST"}, b \in Option(Bodies), rb \in Option({"a"}),
        h \in Option(HeaderMaps), c \in Option(BOOLEAN),
        n \in Option(RetryCounts), t \in Option(Timeouts)}

\* requests that differ in the target and in the flags
SupportedFlags ==
    {[PlainGet EXCEPT !.url = u, !.enable_redirect = er, !.force_json_decode = fj,
                      !.force_yaml_decode = fy, !.cache = c, !.force_cache = fc] :
        u \in {"http://a/", "http://b/"}, er \in Option(BOOLEAN),
        fj \in Option(BOOLEAN), fy \in Option(BOOLEAN),
        c \in Option(BOOLEAN), fc \in Option(BOOLEAN)}

\* a few supported parts to go with every combination of unsupported options
SupportedFew ==
    {PlainGet,
     [PlainGet EXCEPT !.method = "POST", !.body = Some(JStr("a")),
                      !.raw_body = Some("a"), !.cache = Some(TRUE),
                      !.max_retry_atempts = Some(1),
                      !.force_json_decode = Some(TRUE)]}

Requests ==
    {Request(s, u) : s \in SupportedFew, u \in UnsupportedPart}
    \cup {Request(s, NoUnsupported) : s \in SupportedBroad \cup SupportedFlags}

Responses ==
    {Wire(200, Some(HeaderValue("application/json")), FALSE, TextTaggedJson),
     Wire(200, Some(HeaderValue("application/json")), FALSE, TextMalformed),
     Wire(299, Some(HeaderValue("text/plain")), FALSE, TextYamlDoc),
     Wire(503, None, FALSE, "")}

Next ==
    \/ SendBegin(Requests, {5000000, 20000000}, BOOLEAN, 1)
    \/ Attempt(Responses, {"reqwest::Error(connect)"})
    \/ ReadBody(BOOLEAN)

Spec == Init /\ [][Next]_vars

-----------------------------------------------------------------------------
(* Properties of one call *)

Unimplemented == Err("option unimplemented!")

\* the call was refused by unimplemented_option
Rejected == pc = "done" /\ stages = <<"validate">> /\ result = Unimplemented

\* build_request succeeded: `request` holds the assembled request
Assembled == pc = "dispatch" \/ Len(stages) > 3

\* the unsupported part in which only field i is present, with value v
Only(i, v) == [f \in DOMAIN NoUnsupported |->
                 IF f = UnsupportedFields[i] THEN Some(v) ELSE None]

\* C1: a call whose Request holds at least one unsupported option ends with the
\* unsupported-option error after the validate stage alone, and no dispatch is
\* made at any point of the call.
C1_UnsupportedFailsWithoutDispatch ==
    (pc # "idle" /\ PresentUnsupported(data) # {}) =>
        /\ Rejected
        /\ dispatches = 0
        /\ n_past_retries = 0

C1_Witness ==
    /\ Rejected
    /\ PresentUnsupported(data) = {4, 11}
    /\ data.cache = Some(TRUE)
    /\ data.max_retry_atempts = Some(1)
    /\ dispatches = 0

\* C10: the validator decides on presence alone: a call is refused exactly when
\* one of the twelve options is present, whatever its value and whatever the
\* other fields are.
C10_RejectedIffPresent ==
    pc # "idle" =>
        /\ (PresentUnsupported(data) # {}) <=> Rejected
        /\ (PresentUnsupported(data) = {}) <=> (Len(stages) >= 2)

C10_Witness ==
    /\ Rejected
    /\ data.tls_insecure_skip_verify = Some(FALSE)
    /\ PresentUnsupported(data) = {10}

\* the call ended in the validate stage
RefusedByValidator == pc = "done" /\ stages = <<"validate">>

\* C9 as amended: the unsupported-option error is the one message
\* "option unimplemented!" whichever option triggered it: the error of a
\* refused call equals the error of a spec holding any single option.
C9_ErrorSameForEveryField ==
    RefusedByValidator =>
        /\ result = Err("option unimplemented!")
        /\ \A i \in 1..Len(UnsupportedFields) :
              unimplemented_option(Request(PlainGet, Only(i, TRUE))) = result

C9_Witness ==
    /\ RefusedByValidator
    /\ PresentUnsupported(data) = {2}
    /\ result = unimplemented_option(Request(PlainGet, Only(12, TRUE)))

\* C9 as stated: the error identifies the field that triggered it, the first
\* one checked: it is the error of the spec holding that option alone, and of
\* no spec holding another option alone.
C9_Original ==
    RefusedByValidator =>
        LET first == CHOOSE i \in PresentUnsupported(data) :
                        \A j \in PresentUnsupported(data) : i <= j
        IN \A i \in 1..Len(UnsupportedFields) :
              (i = first) <=>
                  (unimplemented_option(Request(PlainGet, Only(i, TRUE))) = result)

ExpectedJsonText(v) ==
    CASE v = JStr("a") -> "\"a\""
      [] v = JObj("a", JNum(1)) -> "{\"a\":1}"

\* the header map the caller supplied, as the request carries it
CallerHeaders(d) == IF IsSome(d.headers) THEN try_into(Unwrap(d.headers)).v ELSE <<>>

\* C7: the payload of the assembled request is the raw_body verbatim when both
\* are present, the JSON text of body when only body is, the raw_body verbatim
\* with no header added when only raw_body is, and absent when neither is.
C7_PayloadChoice ==
    Assembled =>
        /\ (IsSome(data.body) /\ IsSome(data.raw_body)) => request.body = data.raw_body
        /\ (IsSome(data.body) /\ ~IsSome(data.raw_body)) =>
              request.body = Some(ExpectedJsonText(Unwrap(data.body)))
        /\ (~IsSome(data.body) /\ IsSome(data.raw_body)) =>
              /\ request.body = data.raw_body
              /\ request.headers = CallerHeaders(data)
        /\ (~IsSome(data.body) /\ ~IsSome(data.raw_body)) => request.body = None

C7_Witness ==
    /\ pc = "dispatch"
    /\ data.body = Some(JStr("a"))
    /\ data.raw_body = Some("a")
    /\ request.body = Some("a")

Last(seq) == seq[Len(seq)]

IsPrefix(p, q) == Len(p) <= Len(q) /\ SubSeq(q, 1, Len(p)) = p

\* the errors each stage of send can fail with
StageErrors(stage) ==
    CASE stage = "validate" -> {"option unimplemented!"}
      [] stage = "build_client" -> {"reqwest::Error(builder)"}
      [] stage = "build_request" -> {"InvalidHeaderName", "InvalidHeaderValue"}
      [] stage = "dispatch" -> {"reqwest::Error(connect)", "reqwest::Error(timeout)"}
      [] stage = "read_body" -> {"reqwest::Error(body)"}
      [] stage = "decode" ->
            {"ToStrError", "serde_json::Error: unknown variant a",
             "serde_json::Error: expected value", "serde_json::Error: EOF while parsing",
             "serde_yaml::Error: invalid type: map",
             "serde_yaml::Error: unknown variant a",
             "serde_yaml::Error: unknown variant key",
             "serde_yaml::Error: did not find expected node"}
      [] OTHER -> {}

\* no rule of decode_body asks for a decode of this response
NoDecodeAsked(d, headers, raw_body) ==
    \/ raw_body = ""
    \/ /\ "content-type" \in DOMAIN headers
       /\ headers["content-type"].text \notin
              {"application/json", "application/yaml", "application/x-yaml"}
    \/ /\ "content-type" \notin DOMAIN headers
       /\ d.force_json_decode # Some(TRUE)
       /\ d.force_yaml_decode # Some(TRUE)

\* C5: the stages of send run in the fixed order; the call returns nothing
\* before it is done; a Response is returned only when all seven stages ran;
\* an error is the error of the last stage that ran, and no later stage ran;
\* a Response without a decoded body is returned only when no decode was asked.
C5_FirstErrorAborts ==
    /\ pc # "idle" => IsPrefix(stages, StageOrder) /\ stages # <<>>
    /\ pc \in {"dispatch", "body"} => result = None
    /\ pc = "done" =>
          /\ result.ok => stages = StageOrder
          /\ ~result.ok => result.err \in StageErrors(Last(stages))
          /\ (result.ok /\ result.v.body = None) =>
                NoDecodeAsked(data, resp.headers, resp.wire.body)

C5_Witness ==
    /\ pc = "done"
    /\ stages = StageOrder
    /\ ~result.ok
    /\ result.err = "serde_json::Error: EOF while parsing"

-----------------------------------------------------------------------------
(* decode_body over every combination of body, Content-Type and force flags *)

DecodeRequests ==
    {Request([PlainGet EXCEPT !.force_json_decode = fj, !.force_yaml_decode = fy],
             NoUnsupported) :
        fj \in Option(BOOLEAN), fy \in Option(BOOLEAN)}

ContentTypes ==
    {HeaderValue("application/json"), HeaderValue("application/yaml"),
     HeaderValue("application/x-yaml"), HeaderValue("text/plain"),
     HeaderValue("application/json; charset=utf-8"), OpaqueHeaderValue}

BodyTexts ==
    {"", TextPlainDoc, TextYamlDoc, TextTaggedJson, TextTaggedYaml, TextMalformed}

DecodeResponses ==
    {Wire(200, ct, FALSE, text) : ct \in Option(ContentTypes), text \in BodyTexts}

NextDecode ==
    \/ SendBegin(DecodeRequests, {5000000}, {FALSE}, 1)
    \/ Attempt(DecodeResponses, {})
    \/ ReadBody({FALSE})

SpecDecode == Init /\ [][NextDecode]_vars

\* the document a JSON parser reads from the text
JsonDocument(text) ==
    CASE text = TextPlainDoc -> Ok(JObj("a", JNum(1)))
      [] text = TextTaggedJson -> Ok(JObj("Json", JNum(7)))
      [] text = TextTaggedYaml -> Ok(JObj("Yaml", JNum(7)))
      [] OTHER -> Err("not JSON")

\* the document a YAML parser reads from the text
YamlDocument(text) ==
    CASE text = TextYamlDoc -> Ok(JObj("key", JStr("value")))
      [] text = TextPlainDoc -> Ok(JObj("a", JNum(1)))
      [] text = TextTaggedJson -> Ok(JObj("Json", JNum(7)))
      [] text = TextTaggedYaml -> Ok(JObj("Yaml", JNum(7)))
      [] OTHER -> Err("not YAML")

AsJson(r) == IF r.ok THEN Ok(Some(BodyJson(r.v))) ELSE r
AsYaml(r) == IF r.ok THEN Ok(Some(BodyYaml(r.v))) ELSE r

\* the decision order of C4, first match wins
FirstMatch(d, headers, raw_body) ==
    IF raw_body = "" THEN Ok(None)
    ELSE IF "content-type" \in DOMAIN headers THEN
        CASE ~headers["content-type"].visible -> Err("Content-Type is not text")
          [] headers["content-type"] = HeaderValue("application/json") ->
                AsJson(JsonDocument(raw_body))
          [] headers["content-type"] \in {HeaderValue("application/yaml"),
                                          HeaderValue("application/x-yaml")} ->
                AsYaml(YamlDocument(raw_body))
          [] OTHER -> Ok(None)
    ELSE IF d.force_json_decode = Some(TRUE) THEN AsJson(JsonDocument(raw_body))
    ELSE IF d.force_yaml_decode = Some(TRUE) THEN AsYaml(YamlDocument(raw_body))
    ELSE Ok(None)

\* C4: decode_body follows the first-match order: a call that read its body
\* returns the JSON or YAML decoding of the text that the order selects
\* (or no decoded value), with raw_body the text itself, and fails only when
\* the selected decoding fails.
C4_FirstMatchDecode ==
    (pc = "done" /\ Len(stages) = Len(StageOrder)) =>
        LET want == FirstMatch(data, resp.headers, resp.wire.body)
        IN /\ result.ok = want.ok
           /\ result.ok => /\ result.v.body = want.v
                           /\ result.v.raw_body = resp.wire.body

-----------------------------------------------------------------------------
(* The retry middleware against endpoints that fail *)

RetryRequests ==
    {Request([PlainGet EXCEPT !.max_retry_atempts = n, !.cache = c, !.timeout = t],
             NoUnsupported) :
        n \in Option(RetryCounts), c \in {None, Some(TRUE)},
        t \in {None, Some(DeserializeTimeout(DurStr(<<"1", "0", "m", "s">>)).v)}}

RetryResponses ==
    {Wire(200, None, FALSE, ""), Wire(404, None, FALSE, ""),
     Wire(503, None, FALSE, ""), Wire(501, None, TRUE, ""),
     Wire(429, None, FALSE, "")}

NextRetry ==
    \/ SendBegin(RetryRequests, {5000000, 20000000}, {FALSE}, 1)
    \/ Attempt(RetryResponses, {"reqwest::Error(connect)"})
    \/ ReadBody({FALSE})

SpecRetry == Init /\ [][NextRetry]_vars

\* C3 as amended: a call with max_retry_atempts = N makes at most N + 1
\* dispatches, the first attempt and at most N retries; a call without it
\* makes at most one.
C3_AtMostNPlusOneDispatches ==
    pc # "idle" =>
        IF IsSome(data.max_retry_atempts)
        THEN /\ dispatches <= Unwrap(data.max_retry_atempts) + 1
             /\ n_past_retries <= Unwrap(data.max_retry_atempts)
        ELSE dispatches <= 1 /\ n_past_retries = 0

C3_Witness ==
    /\ pc = "done"
    /\ data.max_retry_atempts = Some(MaxRetry)
    /\ dispatches = MaxRetry + 1
    /\ result = Err("reqwest::Error(connect)")

\* C3 as stated: a call with max_retry_atempts = N >= 1 never makes more than
\* N dispatches.
C3_Original ==
    (pc # "idle" /\ IsSome(data.max_retry_atempts)
        /\ Unwrap(data.max_retry_atempts) >= 1) =>
        dispatches <= Unwrap(data.max_retry_atempts)

-----------------------------------------------------------------------------
(* Calls of send one after the other in one process *)

SequentialRequests ==
    {Request([PlainGet EXCEPT !.url = u, !.method = m, !.cache = c,
                              !.force_cache = fc, !.timeout = t],
             NoUnsupported) :
        u \in {"http://a/", "http://b/"}, m \in {"GET", "POST"},
        c \in {None, Some(TRUE)}, fc \in {None, Some(TRUE)},
        t \in {None} \cup {Some(DeserializeTimeout(j).v) :
                             j \in {DurStr(<<"1", "0", "m", "s">>), JNum(10000000)}}}

SequentialResponses ==
    {Wire(200, Some(HeaderValue("application/json")), TRUE, TextTaggedJson),
     Wire(200, None, FALSE, TextYamlDoc)}

NextSequential ==
    \/ SendBegin(SequentialRequests, {5000000, 20000000}, {FALSE}, MaxCalls)
    \/ Attempt(SequentialResponses, {})
    \/ ReadBody({FALSE})
    \/ Return

SpecSequential == Init /\ [][NextSequential]_vars

\* the previous call got a response the cache middleware stores
StoredByPrevious(prev) ==
    /\ prev.data.cache = Some(TRUE)
    /\ prev.data.method = "GET"
    /\ prev.result.ok
    /\ prev.result.v.status_code \in StorableStatuses
    /\ "cache-control" \in DOMAIN prev.result.v.headers

\* C2: the second of two calls with cache == true and the same spec, made
\* against the same endpoint after the first got a cacheable response, returns
\* the body and headers of the first without a dispatch.
C2_SecondCallServedFromCache ==
    (pc = "done" /\ IsSome(last) /\ StoredByPrevious(Unwrap(last))
        /\ data = Unwrap(last).data
        /\ latency = Unwrap(last).latency) =>
        /\ dispatches = 0
        /\ result.ok
        /\ result.v.raw_body = Unwrap(last).result.v.raw_body
        /\ result.v.headers = Unwrap(last).result.v.headers

TimeoutAsString == Some(DeserializeTimeout(DurStr(<<"1", "0", "m", "s">>)).v)
TimeoutAsNanos == Some(DeserializeTimeout(JNum(10000000)).v)

\* C8: the timeout "10ms" and the timeout 10000000 resolve to the same
\* duration on the assembled request, and of two calls that differ only in
\* that form, made against an endpoint slower than 10 ms, each makes its
\* dispatch, fails with the timeout error and returns no Response.
C8_TimeoutFormsAgree ==
    /\ (Assembled /\ data.timeout \in {TimeoutAsString, TimeoutAsNanos}) =>
          request.timeout = Some(10000000)
    /\ (pc = "done" /\ IsSome(last)
          /\ Unwrap(last).data.timeout = TimeoutAsString
          /\ data.timeout = TimeoutAsNanos
          /\ [Unwrap(last).data EXCEPT !.timeout = None] = [data EXCEPT !.timeout = None]
          /\ Unwrap(last).latency = latency
          /\ latency > 10000000) =>
          /\ result = Err("reqwest::Error(timeout)")
          /\ Unwrap(last).result = result
          /\ dispatches = 1
          /\ Unwrap(last).dispatches = 1

C8_Witness ==
    /\ pc = "done"
    /\ IsSome(last)
    /\ Unwrap(last).data.timeout = TimeoutAsString
    /\ data.timeout = TimeoutAsNanos
    /\ TimeoutAsString # TimeoutAsNanos
    /\ [Unwrap(last).data EXCEPT !.timeout = None] = [data EXCEPT !.timeout = None]
    /\ Unwrap(last).latency = 20000000
    /\ latency = 20000000
    /\ result = Err("reqwest::Error(timeout)")
    /\ Unwrap(last).result = result

=============================================================================
